---- MODULE Spec2Model ----
(***************************************************************************)
(* Orchestration engine of CursorCode AI (apps/api/app/ai): the credit     *)
(* gate, the two execution drivers (stream_orchestration and               *)
(* run_agent_graph_task), the graph declared by build_agent_graph, the     *)
(* conditional router should_continue, the routed streaming gateway        *)
(* stream_routed_llm and the retry-wrapped agent_node.                     *)
(*                                                                         *)
(* Conventions of the model.                                               *)
(*  - Names the source uses without importing them (shared_task,           *)
(*    send_email_task, rag_inject inside stream_orchestration, uuid4,      *)
(*    json, datetime in nodes.py) stand for their evident referents.       *)
(*  - A call that leaves the repository (the model gateway, the celery     *)
(*    sinks reached through .delay, the e-mail service, the graph          *)
(*    library's compile) returns or raises; which one is chosen by \E.     *)
(*    The users and projects tables are taken to be reliable: statements   *)
(*    and commits do not raise, a lookup returns the row or None.  The     *)
(*    similarity query on the embeddings table returns or raises.          *)
(*  - Text is modelled as text: replies, markers and messages are strings  *)
(*    built with \o exactly as the source builds them.                     *)
(*  - mode says what a behaviour exercises: one of the two drivers from   *)
(*    its first line ("stream", "batch"); the compiled graph from the      *)
(*    point where a stage node has returned an update ("graph"), since the *)
(*    stage function the graph installs never returns tool calls or        *)
(*    errors while those of nodes.py do; should_continue ("router") and    *)
(*    agent_node ("node") called on their own; the credit gate under       *)
(*    concurrent calls ("gate"); get_model_for_agent ("model_router"); a   *)
(*    stage's routed model call at each call site ("stage_call");          *)
(*    error_handler re-invoked ("handler"); create_project followed by the *)
(*    task it queues ("create"); the Stripe webhook under several          *)
(*    deliveries ("webhook").                                              *)
(*  - The Redis instance of the webhook is taken to be reliable; the       *)
(*    handle_*_task names webhook.py imports stand for the tasks of        *)
(*    app/tasks/billing.py.  Server processes share Redis and nothing      *)
(*    else; inside one process a handler runs from one await to the next.  *)
(***************************************************************************)
EXTENDS Integers, Sequences, FiniteSets, TLC

\* ---------------------------------------------------------------- bounds
\* Largest number of text fragments the gateway sends in one execution of a
\* driver, over all of its stage calls.
MaxFrags == 2

\* Number of calls of the credit gate running at once on one balance.
GateOps == 2

\* Number of times the error handler is invoked for one failed run.
HandlerRuns == 2

\* Number of webhook deliveries, and of server processes handling them.
Deliveries == 2
Processes == 2

\* ------------------------------------------------------ program constants
estimated_cost == 10
refund_amount == 10
creation_cost == 10
low_credit_threshold == 5
max_retries == 3
stop_after_attempt == 4
chars_per_token == 4

\* ------------------------------------------------------------- vocabulary
Agents == <<"architect", "frontend", "backend", "security", "qa", "devops">>

AgentSet == {Agents[i] : i \in 1..Len(Agents)}

\* The node list stream_orchestration iterates over.
StreamNodes == <<"rag_inject">> \o Agents

\* Text fragments the gateway may send, and the texts of the exceptions
\* the collaborators may raise.
Fragments == {"code"}

GatewayErrors == {"timeout"}

\* Balances a user may hold when a run is requested.
InitCredits == {5, 15, 25}

\* Tool calls a gateway reply may ask for (the empty sequence: none).
ToolRequests == {<<>>, <<"search_latest_stack_trends">>}

Upper(a) ==
    CASE a = "architect" -> "ARCHITECT"
      [] a = "frontend"  -> "FRONTEND"
      [] a = "backend"   -> "BACKEND"
      [] a = "security"  -> "SECURITY"
      [] a = "qa"        -> "QA"
      [] a = "devops"    -> "DEVOPS"

\* ----------------------------------------------------------------- state
VARIABLES
    mode,           \* what is exercised: a driver, the graph, or a function
    pc,             \* position of the driver
    credits,        \* User.credits
    startCredits,   \* User.credits when this execution of the driver began
    projStatus,     \* Project.status in the database
    project,        \* the drivers' local variable: "unbound" | "none" | "row"
    st,             \* AgentState of the run (created: whether it exists yet)
    node,           \* node being executed
    full_response,  \* text accumulated for the stage being executed
    nfrags,         \* fragments the gateway has sent in this execution
    out,            \* what the stream has yielded to its consumer
    events,         \* billing, persistence, notification and metering calls made
    ran,            \* nodes executed, in order
    retries,        \* self.request.retries of the celery task
    exc,            \* text of the exception being handled
    result,         \* how the run ended
    gwCalls,        \* tool calls the gateway's reply for this stage asked for
    gwFailed,       \* whether the gateway call of this stage raised
    usageSum,       \* sum of the usage of the successful stage model calls
    attempt,        \* attempt number of the retry policy around agent_node
    reply,          \* reply the gateway returned to agent_node
    update,         \* partial state update a node function returned
    decision,       \* what should_continue returned
    asked,          \* whether a reply of this execution asked for tool calls
    ops,            \* calls of the credit gate in progress on one balance
    routing,        \* a call of get_model_for_agent: arguments and result
    redis_client    \* keys present in the Redis instance of the webhook

vars == <<mode, pc, credits, startCredits, projStatus, project, st, node, full_response,
          nfrags, out, events, ran, retries, exc, result, gwCalls, gwFailed,
          usageSum, attempt, reply, update, decision, asked, ops, routing,
          redis_client>>

\* The variables of the functions exercised on their own.
compVars == <<attempt, reply, update, decision>>

\* ------------------------------------------------------------ AgentState
\* st.keys is the set of keys the state dictionary holds.
NoState ==
    [created |-> FALSE, messages |-> <<>>, errors |-> <<>>,
     total_tokens_used |-> 0, memory |-> "unset", keys |-> {}]

InitialKeys ==
    {"project_id", "user_id", "org_id", "messages", "prompt", "errors",
     "total_tokens_used"}

initial_state ==
    [created |-> TRUE, messages |-> <<>>, errors |-> <<>>,
     total_tokens_used |-> 0, memory |-> "unset", keys |-> InitialKeys]

HumanMessage(c) == [type |-> "human", content |-> c, tool_calls |-> <<>>]

\* AIMessage(content=...): built from text alone, it carries no tool calls.
AIMessage(c) == [type |-> "ai", content |-> c, tool_calls |-> <<>>]

Prompt == "Build a todo app"

\* ------------------------------------------------------- credit gate
\* Text of the exception a sink raises.
SinkError == "broker down"

\* UPDATE users SET credits = credits - amount WHERE credits >= amount,
\* committed before the audit and low-credit sinks are called; an exception
\* of either sink is caught by the function's own handler, which returns
\* (False, str(e)) after a rollback that finds nothing left to undo.
deduct_credits(bal, amount, auditOk, alertOk) ==
    IF amount <= 0
    THEN [success |-> FALSE, credits |-> bal, alert |-> FALSE,
          msg |-> "Amount must be positive"]
    ELSE IF bal >= amount
         THEN LET new == bal - amount
                  low == new <= low_credit_threshold
                  ok  == auditOk /\ (low => alertOk)
              IN  [success |-> ok,
                   credits |-> new,
                   alert   |-> auditOk /\ low /\ alertOk,
                   msg     |-> IF ok THEN "Deducted" ELSE SinkError]
         ELSE [success |-> FALSE, credits |-> bal, alert |-> FALSE,
               msg |-> "Insufficient credits or user not found"]

\* A refund that commits only after its audit sink has accepted the entry.
refund_credits_commit_last(bal, amount, auditOk) ==
    IF amount <= 0 THEN [success |-> FALSE, credits |-> bal]
    ELSE [success |-> auditOk, credits |-> IF auditOk THEN bal + amount ELSE bal]

\* UPDATE users SET credits = credits + amount, committed before the audit
\* sink is called; the function never raises.
refund_credits(bal, amount, auditOk) ==
    IF amount <= 0 THEN [success |-> FALSE, credits |-> bal]
    ELSE [success |-> auditOk, credits |-> bal + amount]

\* ------------------------------------------------- conditional router
Last(s) == s[Len(s)]

\* A router that looks at the pending tool calls before the errors.
should_continue_tools_first(s) ==
    IF Last(s.messages).type = "ai" /\ Last(s.messages).tool_calls # <<>>
    THEN "tools"
    ELSE IF s.errors # <<>> THEN "error_handler" ELSE "next"

should_continue(s) ==
    IF s.errors # <<>> THEN "error_handler"
    ELSE IF Last(s.messages).type = "ai" /\ Last(s.messages).tool_calls # <<>>
         THEN "tools"
         ELSE "next"

\* ------------------------------------------------------------- graph
\* Nodes and edges as build_agent_graph declares them.
GraphNodes == {"rag_inject", "tools", "error_handler"} \cup AgentSet

GraphEdges ==
    {<<"rag_inject", "architect">>, <<"devops", "END">>}
        \cup {<<"tools", a>> : a \in AgentSet}

PathMap(d) ==
    CASE d = "tools"         -> "tools"
      [] d = "next"          -> "next_agent"
      [] d = "error_handler" -> "error_handler"

\* Nodes the walk may run after node n has returned in state s: the targets
\* of n's edges and of its conditional edge that are nodes of the graph.
GraphSucc(n, s) ==
    ({e[2] : e \in {d \in GraphEdges : d[1] = n}}
        \cup (IF n \in AgentSet THEN {PathMap(should_continue(s))} ELSE {}))
    \cap GraphNodes

\* Whether the conditional edge of node n leads, in state s, to a name that
\* is no node of the graph.
UnknownTarget(n, s) ==
    n \in AgentSet /\ PathMap(should_continue(s)) \notin GraphNodes

GraphErrors == {"unknown node next_agent"}

\* The modes in which graph.ainvoke walks the compiled graph.
WalkModes == {"batch", "graph"}

\* The modes in which error_handler runs.
HandlerModes == WalkModes \cup {"handler"}

\* -------------------------------------------------------------- helpers
Index(n) == CHOOSE i \in 1..Len(StreamNodes) : StreamNodes[i] = n

estimate_tokens(text) == Len(text) \div chars_per_token

Ev(name, n) == [e |-> name, n |-> n]

\* The record of a refund in events: made when the balance was raised.
Refunded(before, after) ==
    IF after # before THEN <<Ev("refund", after - before)>> ELSE <<>>

\* What a call that leaves the repository may do: return, raise before it
\* had any effect, or raise after its effect (a sink that queued its job and
\* whose result is then awaited although it is no awaitable).
Outcomes == {"ok", "raise", "done_then_raise"}

SinkErrors == {SinkError}

\* ------------------------------------------------------------------ Init
NoReply == [content |-> "", tool_calls |-> <<>>, reported |-> FALSE,
            total_tokens |-> 0]

\* No call of get_model_for_agent.
NoRouting ==
    [agent_type |-> "", user_tier |-> "", task_complexity |-> "",
     force_model |-> "", selected |-> "", outcome |-> "none",
     caller |-> "", request_tier |-> "", tools_given |-> FALSE, tools |-> {},
     temperature |-> "", max_tokens |-> 0]

\* No stage output.
NoOutput == [kind |-> "none", value |-> ""]

NoUpdate == [returned |-> FALSE, messages |-> <<>>, errors |-> <<>>,
             total_tokens_used |-> 0, key |-> "", output |-> NoOutput]

\* A request to start a run, by either driver.
InitDriver ==
    /\ mode \in {"stream", "batch"}
    /\ pc = "start"
    /\ credits \in InitCredits
    /\ startCredits = credits
    /\ projStatus = "PENDING"
    /\ project = "unbound"
    /\ st = NoState
    /\ node = "none"
    /\ full_response = ""
    /\ nfrags = 0
    /\ out = <<>>
    /\ events = <<>>
    /\ ran = <<>>
    /\ retries = 0
    /\ exc = ""
    /\ result = "running"
    /\ gwCalls = <<>>
    /\ gwFailed = FALSE
    /\ usageSum = 0
    /\ attempt = 0
    /\ reply = NoReply
    /\ update = NoUpdate
    /\ decision = "none"
    /\ asked = FALSE
    /\ redis_client = {}
    /\ ops = <<>>
    /\ routing = NoRouting

\* ---- inputs of the functions exercised on their own ----
ToolMessage(c) == [type |-> "tool", content |-> c, tool_calls |-> <<>>]

ToolCallMessage(c, calls) == [type |-> "ai", content |-> c, tool_calls |-> calls]

\* What ToolNode returns for a sequence of calls.
tool_node(calls) == [i \in 1..Len(calls) |-> ToolMessage(calls[i])]

ErrorLists == {<<"architect: timeout">>,
               <<"frontend: timeout", "backend: timeout">>}

\* States should_continue is asked about: it is called after a node, so
\* messages is never empty.
RouterMessages ==
    {<<HumanMessage(Prompt)>> \o tl :
        tl \in {<<>>,
                <<AIMessage("code")>>,
                <<ToolCallMessage("", <<"search_latest_stack_trends">>)>>,
                <<ToolCallMessage("", <<"execute_code_snippet",
                                        "search_latest_stack_trends">>)>>,
                <<ToolCallMessage("", <<"search_latest_stack_trends">>),
                  ToolMessage("search_latest_stack_trends")>>}}

RouterStates ==
    {[created |-> TRUE, messages |-> m, errors |-> e, total_tokens_used |-> 0,
      memory |-> "empty", keys |-> InitialKeys \cup {"memory"}] :
        m \in RouterMessages, e \in {<<>>} \cup ErrorLists}

\* Replies the gateway may return to agent_node: text that is or is not
\* JSON, with or without surrounding blanks, tool calls, a usage report.
JsonTexts == {"{\"stack\": \"next\"}"}

NodeContents == JsonTexts \cup {"plain text", " plain text "}

NodeReplies ==
    {[content |-> c, tool_calls |-> t, reported |-> u > 0, total_tokens |-> u] :
        c \in NodeContents, t \in ToolRequests, u \in {0, 9}}

\* States agent_node is called with.
NodeStates ==
    {[created |-> TRUE, messages |-> m, errors |-> <<>>,
      total_tokens_used |-> n, memory |-> "empty",
      keys |-> InitialKeys \cup {"memory"}] :
        m \in {<<>>, <<HumanMessage(Prompt)>>}, n \in {0, 100}}

Defaults ==
    /\ projStatus = "PENDING"
    /\ project = "unbound"
    /\ full_response = ""
    /\ nfrags = 0
    /\ out = <<>>
    /\ exc = ""
    /\ result = "running"
    /\ gwCalls = <<>>
    /\ gwFailed = FALSE
    /\ usageSum = 0
    /\ reply = NoReply
    /\ update = NoUpdate
    /\ decision = "none"
    /\ asked = FALSE
    /\ redis_client = {}
    /\ ops = <<>>
    /\ routing = NoRouting

\* error_handler called on its own for a failed run, whose reservation was
\* made before: by the graph, and again by whoever supervises it.
InitHandler ==
    /\ mode = "handler"
    /\ pc = "node"
    /\ node = "error_handler"
    /\ st \in {s \in RouterStates : s.errors # <<>>}
    /\ startCredits \in {b \in InitCredits : b >= estimated_cost}
    /\ credits = startCredits - estimated_cost
    /\ events = <<Ev("deduct", estimated_cost)>>
    /\ ran = <<>>
    /\ retries = 0
    /\ attempt = 0
    /\ Defaults

\* should_continue applied to a state.
InitRouter ==
    /\ mode = "router"
    /\ pc = "r_call"
    /\ st \in RouterStates
    /\ credits = 0
    /\ startCredits = 0
    /\ node = "none"
    /\ events = <<>>
    /\ ran = <<>>
    /\ retries = 0
    /\ attempt = 0
    /\ Defaults

\* agent_node called for a stage, under its retry policy.
InitNode ==
    /\ mode = "node"
    /\ pc = "n_route"
    /\ st \in NodeStates
    /\ credits = 0
    /\ startCredits = 0
    /\ node \in AgentSet
    /\ events = <<>>
    /\ ran = <<>>
    /\ retries = 0
    /\ attempt = 1
    /\ Defaults

\* The compiled graph, taken where a stage node has just returned its
\* update inside graph.ainvoke of run_agent_graph_task: the node functions
\* of nodes.py return updates that carry tool calls or errors, so the walk
\* is exercised from every such state.  The reservation was made before;
\* the task is at its last retry.
InitGraph ==
    /\ mode = "graph"
    /\ pc = "route"
    /\ st \in RouterStates
    /\ startCredits \in {b \in InitCredits : b >= estimated_cost}
    /\ credits = startCredits - estimated_cost
    /\ node \in AgentSet
    /\ events = <<Ev("deduct", estimated_cost)>>
    /\ ran = <<node>>
    /\ retries = max_retries
    /\ attempt = 0
    /\ Defaults

\* ------------------------------------------------------ model router
\* The registry as the settings' defaults fill it: each setting has a
\* non-empty default, so the literals after `or` are not used, and the two
\* fast entries name the same model.
MODELS ==
    [default_reasoning  |-> "grok-beta",
     fast_reasoning     |-> "grok-beta-fast",
     fast_non_reasoning |-> "grok-beta-fast"]

\* MODELS.values()
ModelValues == {MODELS[k] : k \in DOMAIN MODELS}

AGENT_MODEL_PREFERENCE ==
    [architect |-> "default_reasoning",
     product   |-> "default_reasoning",
     frontend  |-> "fast_reasoning",
     backend   |-> "fast_reasoning",
     security  |-> "fast_reasoning",
     qa        |-> "fast_non_reasoning",
     devops    |-> "fast_non_reasoning"]

\* AGENT_MODEL_PREFERENCE.get(agent_type, "fast_non_reasoning")
Preference(agent_type) ==
    IF agent_type \in DOMAIN AGENT_MODEL_PREFERENCE
    THEN AGENT_MODEL_PREFERENCE[agent_type]
    ELSE "fast_non_reasoning"

\* The arguments get_model_for_agent is called with; "reviewer" is an agent
\* type the preference table does not hold, "none" is force_model = None and
\* "gpt-4o" a model the registry does not hold.
AgentTypes == DOMAIN AGENT_MODEL_PREFERENCE \cup {"reviewer"}

UserTiers == {"starter", "standard", "pro", "premier", "ultra"}

Complexities == {"low", "medium", "high"}

ForceModels == {"none", "gpt-4o"} \cup ModelValues

\* A router without the escalation of the two upper tiers.
get_model_for_agent_no_escalation(agent_type, user_tier, task_complexity, force_model) ==
    IF force_model # "none" /\ force_model \in ModelValues THEN force_model
    ELSE LET byAgent == Preference(agent_type)
             byComplexity ==
                 IF task_complexity = "high" /\ byAgent # "default_reasoning"
                 THEN "default_reasoning" ELSE byAgent
             preferred ==
                 IF user_tier = "starter" /\ byComplexity = "default_reasoning"
                 THEN "fast_non_reasoning" ELSE byComplexity
         IN  MODELS[preferred]

\* A router that applies the starter downgrade before the complexity
\* override.
get_model_for_agent_downgrade_first(agent_type, user_tier, task_complexity, force_model) ==
    IF force_model # "none" /\ force_model \in ModelValues THEN force_model
    ELSE LET byTier ==
                 IF user_tier \in {"premier", "ultra"}
                    /\ task_complexity \in {"medium", "high"}
                 THEN "default_reasoning" ELSE Preference(agent_type)
             byCost ==
                 IF user_tier = "starter" /\ byTier = "default_reasoning"
                 THEN "fast_non_reasoning" ELSE byTier
             preferred ==
                 IF task_complexity = "high" /\ byCost # "default_reasoning"
                 THEN "default_reasoning" ELSE byCost
         IN  MODELS[preferred]

\* A router that does not look at force_model.
get_model_for_agent_ignore_force(agent_type, user_tier, task_complexity, force_model) ==
    LET byTier ==
            IF user_tier \in {"premier", "ultra"}
               /\ task_complexity \in {"medium", "high"}
            THEN "default_reasoning" ELSE Preference(agent_type)
        byComplexity ==
            IF task_complexity = "high" /\ byTier # "default_reasoning"
            THEN "default_reasoning" ELSE byTier
        preferred ==
            IF user_tier = "starter" /\ byComplexity = "default_reasoning"
            THEN "fast_non_reasoning" ELSE byComplexity
    IN  MODELS[preferred]

\* The model get_model_for_agent selects (lines 55-75), before its audit
\* call.
get_model_for_agent(agent_type, user_tier, task_complexity, force_model) ==
    IF force_model # "none" /\ force_model \in ModelValues THEN force_model
    ELSE LET byTier ==
                 IF user_tier \in {"premier", "ultra"}
                    /\ task_complexity \in {"medium", "high"}
                 THEN "default_reasoning" ELSE Preference(agent_type)
             byComplexity ==
                 IF task_complexity = "high" /\ byTier # "default_reasoning"
                 THEN "default_reasoning" ELSE byTier
             preferred ==
                 IF user_tier = "starter" /\ byComplexity = "default_reasoning"
                 THEN "fast_non_reasoning" ELSE byComplexity
         IN  MODELS[preferred]

\* get_model_for_agent called on its own.
InitModelRouter ==
    /\ mode = "model_router"
    /\ pc = "select"
    /\ st = NoState
    /\ credits = 0
    /\ startCredits = 0
    /\ node = "none"
    /\ events = <<>>
    /\ ran = <<>>
    /\ retries = 0
    /\ attempt = 0
    /\ projStatus = "PENDING"
    /\ project = "unbound"
    /\ full_response = ""
    /\ nfrags = 0
    /\ out = <<>>
    /\ exc = ""
    /\ result = "running"
    /\ gwCalls = <<>>
    /\ gwFailed = FALSE
    /\ usageSum = 0
    /\ reply = NoReply
    /\ update = NoUpdate
    /\ decision = "none"
    /\ asked = FALSE
    /\ redis_client = {}
    /\ ops = <<>>
    /\ routing \in {[NoRouting EXCEPT !.agent_type = a, !.user_tier = t,
                                       !.task_complexity = c,
                                       !.force_model = f] :
                     a \in AgentTypes, t \in UserTiers, c \in Complexities,
                     f \in ForceModels}

\* ------------------------------------------------ routed model calls
\* The tool catalog and the per-stage subsets (tools.py 221-235).
tools ==
    {"search_latest_stack_trends", "execute_code_snippet",
     "fetch_ui_component_example", "scan_code_for_vulnerabilities",
     "generate_ci_cd_pipeline"}

AGENT_TOOLS ==
    [architect |-> {"search_latest_stack_trends"},
     frontend  |-> {"fetch_ui_component_example"},
     backend   |-> {"execute_code_snippet"},
     security  |-> {"scan_code_for_vulnerabilities"},
     qa        |-> {"execute_code_snippet"},
     devops    |-> {"generate_ci_cd_pipeline"}]

\* The places a stage's model call is made from, and the three factories
\* called directly, without tools and without overrides.
CallSites == {"stream_orchestration", "run_agent_step", "agent_node"}

Factories == {"get_routed_llm", "stream_routed_llm", "router.get_routed_llm"}

\* The factory a call site goes through.
Via(caller) ==
    CASE caller \in {"stream_orchestration", "run_agent_step"} -> "stream_routed_llm"
      [] caller = "agent_node" -> "get_routed_llm"
      [] OTHER -> caller

\* user_tier as it reaches the factory.  stream_project calls
\* stream_orchestration with user_tier="starter", which forwards its
\* parameter; run_agent_step passes "starter"; agent_node passes nothing, so
\* the default "starter" applies; run_agent_graph_task has no such parameter.
TierPassed(caller, request_tier) ==
    IF caller \in CallSites THEN "starter" ELSE request_tier

\* The tools argument: none in the stream, the catalog in run_agent_step,
\* AGENT_TOOLS.get(agent_type, tools) in agent_node.
ToolsPassed(caller, agent_type) ==
    CASE caller = "run_agent_step" -> [given |-> TRUE, names |-> tools]
      [] caller = "agent_node" ->
            [given |-> TRUE,
             names |-> IF agent_type \in DOMAIN AGENT_TOOLS
                       THEN AGENT_TOOLS[agent_type] ELSE tools]
      [] OTHER -> [given |-> FALSE, names |-> {}]

\* temperature and max_tokens with no override given: get_routed_llm of
\* llm.py sets them by agent family, stream_routed_llm takes 0.7 and 8192
\* for every agent, get_routed_llm of router.py its defaults 0.3 and 8192.
GenerationProfile(factory, agent_type) ==
    CASE factory = "get_routed_llm" ->
            IF agent_type \in {"architect", "security", "product"}
            THEN [temperature |-> "0.2", max_tokens |-> 12288]
            ELSE IF agent_type \in {"frontend", "backend"}
                 THEN [temperature |-> "0.5", max_tokens |-> 8192]
                 ELSE [temperature |-> "0.7", max_tokens |-> 4096]
      [] factory = "stream_routed_llm" ->
            [temperature |-> "0.7", max_tokens |-> 8192]
      [] factory = "router.get_routed_llm" ->
            [temperature |-> "0.3", max_tokens |-> 8192]

\* A stage's model call, or a direct call of a factory, for a request made
\* with request_tier.
InitStageCall ==
    /\ mode = "stage_call"
    /\ pc = "call"
    /\ st = NoState
    /\ credits = 0
    /\ startCredits = 0
    /\ node = "none"
    /\ events = <<>>
    /\ ran = <<>>
    /\ retries = 0
    /\ attempt = 0
    /\ projStatus = "PENDING"
    /\ project = "unbound"
    /\ full_response = ""
    /\ nfrags = 0
    /\ out = <<>>
    /\ exc = ""
    /\ result = "running"
    /\ gwCalls = <<>>
    /\ gwFailed = FALSE
    /\ usageSum = 0
    /\ reply = NoReply
    /\ update = NoUpdate
    /\ decision = "none"
    /\ asked = FALSE
    /\ redis_client = {}
    /\ ops = <<>>
    /\ routing \in
         {[NoRouting EXCEPT !.caller = c, !.agent_type = a,
                            !.request_tier = t, !.force_model = "none"] :
            c \in CallSites, a \in AgentSet, t \in UserTiers}
         \cup
         {[NoRouting EXCEPT !.caller = c, !.agent_type = a,
                            !.request_tier = t, !.force_model = "none"] :
            c \in Factories, a \in AgentTypes, t \in UserTiers}

\* Calls of deduct_credits and refund_credits for one user, running at
\* once, each in a session of its own.  seen is the balance its UPDATE
\* found, took the amount its UPDATE moved, success what it returned.
GateAmounts == {0, estimated_cost}

GateCalls ==
    {[kind |-> k, amount |-> a, at |-> "update", seen |-> 0, took |-> 0,
      success |-> FALSE] : k \in {"deduct", "refund"}, a \in GateAmounts}

InitGate ==
    /\ mode = "gate"
    /\ pc = "gate"
    /\ st = NoState
    /\ credits \in InitCredits
    /\ startCredits = credits
    /\ node = "none"
    /\ events = <<>>
    /\ ran = <<>>
    /\ retries = 0
    /\ attempt = 0
    /\ projStatus = "PENDING"
    /\ project = "unbound"
    /\ full_response = ""
    /\ nfrags = 0
    /\ out = <<>>
    /\ exc = ""
    /\ result = "running"
    /\ gwCalls = <<>>
    /\ gwFailed = FALSE
    /\ usageSum = 0
    /\ reply = NoReply
    /\ update = NoUpdate
    /\ decision = "none"
    /\ asked = FALSE
    /\ redis_client = {}
    /\ routing = NoRouting
    /\ ops \in [1..GateOps -> GateCalls]

\* ------------------------------------------------- POST /webhook/stripe
\* Deliveries of Stripe events to the endpoint.  Each is handled by one
\* server process; processes share the Redis instance.
EventIds == {"evt_1", "evt_2"}

\* The types of the two events: one with a handler task, one without.
HandledTypes == {"checkout.session.completed"}

EventType(id) ==
    IF id = "evt_1" THEN "checkout.session.completed" ELSE "customer.created"

WebhookDeliveries ==
    {[event_id |-> id, signed |-> sg, proc |-> pr, at |-> "get",
      response |-> "none"] :
        id \in EventIds, sg \in BOOLEAN, pr \in 1..Processes}

InitWebhook ==
    /\ mode = "webhook"
    /\ pc = "webhook"
    /\ st = NoState
    /\ credits = 0
    /\ startCredits = 0
    /\ node = "none"
    /\ events = <<>>
    /\ ran = <<>>
    /\ retries = 0
    /\ attempt = 0
    /\ projStatus = "NONE"
    /\ project = "unbound"
    /\ full_response = ""
    /\ nfrags = 0
    /\ out = <<>>
    /\ exc = ""
    /\ result = "running"
    /\ gwCalls = <<>>
    /\ gwFailed = FALSE
    /\ usageSum = 0
    /\ reply = NoReply
    /\ update = NoUpdate
    /\ decision = "none"
    /\ asked = FALSE
    /\ redis_client = {}
    /\ routing = NoRouting
    /\ ops \in [1..Deliveries -> WebhookDeliveries]

\* A request to create a project, POST /projects.  There is no project row
\* yet.
CreateCredits == {5, 25}

InitCreate ==
    /\ mode = "create"
    /\ pc = "c_deduct"
    /\ credits \in CreateCredits
    /\ startCredits = credits
    /\ projStatus = "NONE"
    /\ project = "unbound"
    /\ st = NoState
    /\ node = "none"
    /\ full_response = ""
    /\ nfrags = 0
    /\ out = <<>>
    /\ events = <<>>
    /\ ran = <<>>
    /\ retries = 0
    /\ exc = ""
    /\ result = "running"
    /\ gwCalls = <<>>
    /\ gwFailed = FALSE
    /\ usageSum = 0
    /\ attempt = 0
    /\ reply = NoReply
    /\ update = NoUpdate
    /\ decision = "none"
    /\ asked = FALSE
    /\ redis_client = {}
    /\ ops = <<>>
    /\ routing = NoRouting

Init ==
    \/ InitCreate
    \/ InitDriver
    \/ InitRouter
    \/ InitNode
    \/ InitGraph
    \/ InitGate
    \/ InitModelRouter
    \/ InitHandler
    \/ InitStageCall
    \/ InitWebhook

\* ------------------------------------------------------ create_project
\* deduct_credits(amount=10); a refusal is answered 402.
CreateDeduct ==
    /\ mode = "create"
    /\ pc = "c_deduct"
    /\ \E auditOk \in BOOLEAN, alertOk \in BOOLEAN :
         LET r == deduct_credits(credits, creation_cost, auditOk, alertOk) IN
         /\ credits' = r.credits
         /\ events' = events
                \o (IF r.credits # credits
                    THEN <<Ev("deduct", credits - r.credits)>> ELSE <<>>)
                \o (IF r.alert THEN <<Ev("low_alert", r.credits)>> ELSE <<>>)
         /\ IF r.success
            THEN /\ pc' = "c_project"
                 /\ UNCHANGED result
            ELSE /\ pc' = "ended"
                 /\ result' = "rejected"
    /\ UNCHANGED compVars
    /\ UNCHANGED <<redis_client, asked, ops, routing, mode, startCredits, projStatus, project,
                   st, node, full_response, nfrags, out, ran, retries, exc,
                   gwCalls, gwFailed, usageSum>>

\* Project(title=payload.title or f"Project {UUID().hex[:8]}", ...) and its
\* commit.  UUID() without an argument raises TypeError, so a request
\* without a title ends here, after the deduction.
CreateProject ==
    /\ mode = "create"
    /\ pc = "c_project"
    /\ \E titled \in BOOLEAN :
         IF titled
         THEN /\ projStatus' = "PENDING"
              /\ events' = Append(events, Ev("project_created", 0))
              /\ pc' = "c_audit"
              /\ UNCHANGED <<exc, result>>
         ELSE /\ exc' = "TypeError"
              /\ pc' = "ended"
              /\ result' = "crashed"
              /\ UNCHANGED <<projStatus, events>>
    /\ UNCHANGED compVars
    /\ UNCHANGED <<redis_client, asked, ops, routing, mode, startCredits, credits, project, st,
                   node, full_response, nfrags, out, ran, retries, gwCalls,
                   gwFailed, usageSum>>

\* audit_log.delay(action="project_created"), between the registration of
\* the two background tasks.  The tasks run once the response is sent: when
\* the audit call raises there is no response and they do not run.
CreateAudit ==
    /\ mode = "create"
    /\ pc = "c_audit"
    /\ \E auditOk \in BOOLEAN :
         IF auditOk
         THEN /\ pc' = "c_enqueue"
              /\ UNCHANGED <<exc, result>>
         ELSE /\ exc' = SinkError
              /\ pc' = "ended"
              /\ result' = "crashed"
    /\ UNCHANGED compVars
    /\ UNCHANGED <<redis_client, asked, ops, routing, mode, startCredits, credits, projStatus,
                   project, st, node, full_response, nfrags, out, events, ran,
                   retries, gwCalls, gwFailed, usageSum>>

\* First background task: run_agent_graph_task.delay(...).  What it raises
\* ends the background tasks.
CreateEnqueue ==
    /\ mode = "create"
    /\ pc = "c_enqueue"
    /\ \E queued \in BOOLEAN :
         IF queued
         THEN /\ events' = Append(events, Ev("task_queued", 0))
              /\ pc' = "c_email"
              /\ UNCHANGED <<exc, result>>
         ELSE /\ exc' = SinkError
              /\ pc' = "ended"
              /\ result' = "crashed"
              /\ UNCHANGED events
    /\ UNCHANGED compVars
    /\ UNCHANGED <<redis_client, asked, ops, routing, mode, startCredits, credits, projStatus,
                   project, st, node, full_response, nfrags, out, ran, retries,
                   gwCalls, gwFailed, usageSum>>

\* Second background task: send_deployment_success_email(deploy_url=None).
\* Then a worker takes the queued task: run_agent_graph_task begins.
CreateEmail ==
    /\ mode = "create"
    /\ pc = "c_email"
    /\ \E sent \in BOOLEAN :
         events' = IF sent THEN Append(events, Ev("created_email", 0))
                   ELSE events
    /\ mode' = "batch"
    /\ pc' = "start"
    /\ startCredits' = credits
    /\ UNCHANGED compVars
    /\ UNCHANGED <<redis_client, asked, ops, routing, credits, projStatus, project, st, node,
                   full_response, nfrags, out, ran, retries, exc, result,
                   gwCalls, gwFailed, usageSum>>

\* ------------------------------------------------------ shared: deduct
\* The reservation both drivers make first.  On a refusal the stream yields
\* its rejection and returns; the task notifies and raises ValueError.
Reserve ==
    /\ pc = "start"
    /\ \E auditOk \in BOOLEAN, alertOk \in BOOLEAN :
         LET r == deduct_credits(credits, estimated_cost, auditOk, alertOk) IN
         /\ credits' = r.credits
         /\ IF r.success
            THEN /\ pc' = "build"
                 /\ events' = events
                        \o <<Ev("deduct", credits - r.credits)>>
                        \o (IF r.alert THEN <<Ev("low_alert", r.credits)>>
                            ELSE <<>>)
                 /\ UNCHANGED <<out, result>>
            ELSE /\ events' = events
                        \o (IF r.credits # credits
                            THEN <<Ev("deduct", credits - r.credits)>>
                            ELSE <<>>)
                        \o (IF mode = "batch"
                            THEN <<Ev("notify_insufficient", 0)>>
                            ELSE <<>>)
                 /\ out' = IF mode = "stream"
                           THEN Append(out, "[ERROR] Insufficient credits: "
                                                \o r.msg)
                           ELSE out
                 /\ pc' = "ended"
                 /\ result' = "rejected"
    /\ UNCHANGED compVars
    /\ UNCHANGED <<redis_client, asked, ops, routing, mode, startCredits, projStatus, project, st, node, full_response, nfrags,
                   ran, retries, exc, gwCalls, gwFailed, usageSum>>

\* build_agent_graph() and the creation of initial_state, both before the
\* try block.  compile() belongs to the graph library: it returns the graph
\* or raises, and nothing catches what it raises.
BuildGraph ==
    /\ pc = "build"
    /\ \E compiled \in BOOLEAN :
         IF compiled
         THEN /\ st' = initial_state
              /\ node' = "rag_inject"
              /\ pc' = "node"
              /\ UNCHANGED result
         ELSE /\ pc' = "ended"
              /\ result' = "crashed"
              /\ UNCHANGED <<st, node>>
    /\ UNCHANGED compVars
    /\ UNCHANGED <<redis_client, asked, ops, routing, mode, startCredits, credits, projStatus, project, full_response, nfrags,
                   out, events, ran, retries, exc, gwCalls, gwFailed, usageSum>>

\* ------------------------------------------------------------ retrieval
\* What the query on the embeddings table does: it returns rows, returns
\* none, or raises.
Lookups == {"hits", "empty", "raise"}

LookupError == "lookup failed"

\* A retrieval whose body is not guarded: the exception of the lookup leaves
\* the function.
get_project_memory_unguarded(lookup) ==
    [similar_projects |-> IF lookup = "raise" THEN "unset" ELSE lookup,
     raised |-> lookup = "raise"]

\* get_project_memory: the whole body is in a try whose `except Exception`
\* logs and returns {"similar_projects": []}.
get_project_memory(lookup) ==
    [similar_projects |-> IF lookup = "raise" THEN "empty" ELSE lookup,
     raised |-> FALSE]

\* rag_inject: the update holds the memory and replaces messages by the
\* prompt.  An exception that left get_project_memory would leave rag_inject
\* too, into the driver's except branch.
RagInject ==
    /\ pc = "node"
    /\ node = "rag_inject"
    /\ \E lookup \in Lookups :
         LET memory == get_project_memory(lookup)
         IN  /\ events' = IF lookup = "raise"
                          THEN Append(events, Ev("lookup_raised", 0))
                          ELSE events
             /\ IF memory.raised
                THEN /\ pc' = "except"
                     /\ exc' = LookupError
                     /\ UNCHANGED <<st, ran, node>>
                ELSE /\ st' = [st EXCEPT
                                 !.memory = memory.similar_projects,
                                 !.messages = <<HumanMessage(Prompt)>>,
                                 !.keys = @ \cup {"memory", "messages"}]
                     /\ ran' = Append(ran, node)
                     /\ exc' = exc
                     /\ IF mode = "stream"
                        THEN /\ node' = StreamNodes[Index(node) + 1]
                             /\ pc' = "agent_start"
                        ELSE /\ node' = node
                             /\ pc' = "route"
    /\ UNCHANGED compVars
    /\ UNCHANGED <<redis_client, asked, ops, routing, mode, startCredits, credits, projStatus,
                   project, full_response, nfrags, out, retries, result,
                   gwCalls, gwFailed, usageSum>>

\* ------------------------------------------------- stream: stage start
StreamAgentStart ==
    /\ mode = "stream"
    /\ pc = "agent_start"
    /\ out' = Append(out, "[AGENT_START]" \o Upper(node) \o "[/AGENT_START]")
    /\ ran' = Append(ran, node)
    /\ pc' = "setup"
    /\ UNCHANGED compVars
    /\ UNCHANGED <<redis_client, asked, ops, routing, mode, startCredits, credits, projStatus, project, st, node, full_response,
                   nfrags, events, retries, exc, result, gwCalls, gwFailed,
                   usageSum>>

\* ------------------------------------------------- stream_routed_llm
\* Lines 171-203, before the generator's try block: routing, the gateway
\* factory and the audit of the call.  What they raise reaches the caller.
LlmSetup ==
    /\ pc = "setup"
    /\ \E ok \in BOOLEAN :
         IF ok
         THEN /\ pc' = "chunks"
              /\ exc' = exc
         ELSE /\ pc' = "except"
              /\ exc' \in SinkErrors
    /\ full_response' = ""
    /\ gwCalls' = <<>>
    /\ gwFailed' = FALSE
    /\ ran' = IF mode \in WalkModes THEN Append(ran, node) ELSE ran
    /\ UNCHANGED compVars
    /\ UNCHANGED <<redis_client, asked, ops, routing, mode, startCredits, credits, projStatus, project, st, node, nfrags, out,
                   events, retries, result, usageSum>>

\* What the caller does with one chunk of stream_routed_llm: both callers
\* add it to full_response, the stream also yields it.
Consume(chunk) ==
    /\ full_response' = full_response \o chunk
    /\ out' = IF mode = "stream" THEN Append(out, chunk) ELSE out

\* The gateway sends a text fragment.
LlmChunk ==
    /\ pc = "chunks"
    /\ nfrags < MaxFrags
    /\ \E f \in Fragments : Consume(f)
    /\ nfrags' = nfrags + 1
    /\ UNCHANGED compVars
    /\ UNCHANGED <<redis_client, asked, ops, routing, mode, startCredits, pc, credits, projStatus, project, st, node, events,
                   ran, retries, exc, result, gwCalls, gwFailed, usageSum>>

\* The gateway's reply ends: the sentinel is yielded as one more chunk.  The
\* reply may have asked for tool calls; only its text was read.  The
\* streaming gateway reports no usage, so the call's usage is the estimate.
LlmDone ==
    /\ pc = "chunks"
    /\ Consume("[DONE]")
    /\ gwCalls' \in ToolRequests
    /\ asked' = (asked \/ gwCalls' # <<>>)
    /\ usageSum' = usageSum + estimate_tokens(full_response)
    /\ pc' = "agent_end"
    /\ UNCHANGED compVars
    /\ UNCHANGED <<redis_client, ops, routing, mode, startCredits, credits, projStatus, project, st, node, nfrags,
                   events, ran, retries, exc, result, gwFailed>>

\* The gateway call raises: the generator's handler turns the exception into
\* one more chunk and ends normally.
LlmFail ==
    /\ pc = "chunks"
    /\ \E e \in GatewayErrors : Consume("[ERROR] Streaming failed: " \o e)
    /\ gwFailed' = TRUE
    /\ pc' = "agent_end"
    /\ UNCHANGED compVars
    /\ UNCHANGED <<redis_client, asked, ops, routing, mode, startCredits, credits, projStatus, project, st, node, nfrags,
                   events, ran, retries, exc, result, gwCalls, usageSum>>

\* --------------------------------------------------- stream: stage end
StreamAgentEnd ==
    /\ mode = "stream"
    /\ pc = "agent_end"
    /\ out' = Append(out, "[AGENT_END]")
    /\ st' = [st EXCEPT !.messages = Append(@, AIMessage(full_response)),
                        !.keys = @ \cup {"messages"}]
    /\ IF Index(node) < Len(StreamNodes)
       THEN /\ node' = StreamNodes[Index(node) + 1]
            /\ pc' = "agent_start"
       ELSE /\ node' = "none"
            /\ pc' = "final"
    /\ UNCHANGED compVars
    /\ UNCHANGED <<redis_client, asked, ops, routing, mode, startCredits, credits, projStatus, project, full_response, nfrags,
                   events, ran, retries, exc, result, gwCalls, gwFailed,
                   usageSum>>

\* ------------------------------------- batch: run_agent_step returns
\* The node's update: messages = state["messages"] + [AIMessage(content)].
BatchAgentEnd ==
    /\ mode \in WalkModes
    /\ pc = "agent_end"
    /\ st' = [st EXCEPT !.messages = Append(@, AIMessage(full_response)),
                        !.keys = @ \cup {"messages"}]
    /\ pc' = "route"
    /\ UNCHANGED compVars
    /\ UNCHANGED <<redis_client, asked, ops, routing, mode, startCredits, credits, projStatus, project, node,
                   full_response, nfrags, out, events, ran, retries, exc,
                   result, gwCalls, gwFailed, usageSum>>

\* ------------------------------------------------- graph.ainvoke: edges
\* After a node has returned, the walk runs the nodes its edges lead to;
\* with none left, ainvoke returns.  Where several nodes follow (the edges
\* of "tools"), each of them runs; the walk is followed along any one.  A
\* conditional edge that names no node of the graph is the library's to
\* handle: the walk goes nowhere along it, or ainvoke raises.
GraphRoute ==
    /\ mode \in WalkModes
    /\ pc = "route"
    /\ IF GraphSucc(node, st) = {}
       THEN \E raises \in IF UnknownTarget(node, st) THEN BOOLEAN ELSE {FALSE} :
              IF raises
              THEN /\ pc' = "except"
                   /\ exc' \in GraphErrors
                   /\ node' = node
              ELSE /\ pc' = "final"
                   /\ exc' = exc
                   /\ node' = "none"
       ELSE /\ node' \in GraphSucc(node, st)
            /\ pc' = IF node' \in AgentSet THEN "setup" ELSE "node"
            /\ exc' = exc
    /\ UNCHANGED compVars
    /\ UNCHANGED <<redis_client, asked, ops, routing, mode, startCredits, credits, projStatus, project, st,
                   full_response, nfrags, out, events, ran, retries, result,
                   gwCalls, gwFailed, usageSum>>

\* ------------------------------------------------------------ tool_node
\* ToolNode(tools): one tool message per call of the last message, in the
\* order of the calls.  AgentState declares no reducer for messages (the
\* annotation is the string "add_messages"), so a node's update replaces
\* the list.
ToolNode ==
    /\ mode \in WalkModes
    /\ pc = "node"
    /\ node = "tools"
    /\ st' = [st EXCEPT !.messages = tool_node(Last(st.messages).tool_calls)]
    /\ ran' = Append(ran, node)
    /\ pc' = "route"
    /\ UNCHANGED compVars
    /\ UNCHANGED <<redis_client, asked, ops, routing, mode, startCredits, credits, projStatus, project, node,
                   full_response, nfrags, out, events, retries, exc, result,
                   gwCalls, gwFailed, usageSum>>

\* ------------------------------------------------ success bookkeeping
\* project = await db.get(...); if project: status = COMPLETED; commit.
FinalProject ==
    /\ pc = "final"
    /\ \E found \in BOOLEAN :
         IF found
         THEN /\ project' = "row"
              /\ projStatus' = "COMPLETED"
              /\ events' = Append(events, Ev("completed", 0))
         ELSE /\ project' = "none"
              /\ UNCHANGED <<projStatus, events>>
    /\ pc' = "email"
    /\ UNCHANGED compVars
    /\ UNCHANGED <<redis_client, asked, ops, routing, mode, startCredits, credits, st, node, full_response, nfrags, out, ran,
                   retries, exc, result, gwCalls, gwFailed, usageSum>>

\* await send_deployment_success_email(project_title=project.title ...).
FinalEmail ==
    /\ pc = "email"
    /\ IF project = "none"
       THEN /\ exc' = "AttributeError"
            /\ pc' = "except"
            /\ UNCHANGED events
       ELSE \E o \in Outcomes :
              /\ events' = IF o = "raise" THEN events
                           ELSE Append(events, Ev("notify_success", 0))
              /\ IF o = "ok"
                 THEN /\ pc' = "usage"
                      /\ exc' = exc
                 ELSE /\ pc' = "except"
                      /\ exc' \in SinkErrors
    /\ UNCHANGED compVars
    /\ UNCHANGED <<redis_client, asked, ops, routing, mode, startCredits, credits, projStatus, project, st, node, full_response,
                   nfrags, out, ran, retries, result, gwCalls, gwFailed,
                   usageSum>>

\* report_grok_usage.delay(tokens_used=state.get("total_tokens_used", 5000)).
FinalUsage ==
    /\ pc = "usage"
    /\ \E o \in Outcomes :
         /\ events' = IF o = "raise" THEN events
                      ELSE Append(events,
                                  Ev("usage_report", st.total_tokens_used))
         /\ IF o = "ok"
            THEN /\ pc' = "audit"
                 /\ exc' = exc
            ELSE /\ pc' = "except"
                 /\ exc' \in SinkErrors
    /\ UNCHANGED compVars
    /\ UNCHANGED <<redis_client, asked, ops, routing, mode, startCredits, credits, projStatus, project, st, node, full_response,
                   nfrags, out, ran, retries, result, gwCalls, gwFailed,
                   usageSum>>

\* audit_log.delay(action="project_completed..."), then the stream's
\* COMPLETE marker; the task returns.
FinalAudit ==
    /\ pc = "audit"
    /\ \E ok \in BOOLEAN :
         IF ok
         THEN /\ out' = IF mode = "stream" THEN Append(out, "[COMPLETE]")
                        ELSE out
              /\ pc' = "ended"
              /\ result' = "done"
              /\ exc' = exc
         ELSE /\ pc' = "except"
              /\ exc' \in SinkErrors
              /\ UNCHANGED <<out, result>>
    /\ UNCHANGED compVars
    /\ UNCHANGED <<redis_client, asked, ops, routing, mode, startCredits, credits, projStatus, project, st, node, full_response,
                   nfrags, events, ran, retries, gwCalls, gwFailed, usageSum>>

\* ------------------------------------------------------ except branch
\* except Exception: refund, then `if project:` on a local that is bound
\* only once the success bookkeeping has begun; on an unbound local the
\* handler itself raises and the run ends there.
Except ==
    /\ pc = "except"
    /\ \E auditOk \in BOOLEAN :
         credits' = refund_credits(credits, estimated_cost, auditOk).credits
    /\ IF project = "unbound"
       THEN /\ events' = events \o Refunded(credits, credits')
            /\ exc' = "UnboundLocalError"
            /\ pc' = "ended"
            /\ result' = "crashed"
            /\ UNCHANGED projStatus
       ELSE /\ IF project = "row"
               THEN /\ projStatus' = "FAILED"
                    /\ events' = events \o Refunded(credits, credits')
                                        \o <<Ev("failed", 0)>>
               ELSE /\ projStatus' = projStatus
                    /\ events' = events \o Refunded(credits, credits')
            /\ pc' = "exc_notify"
            /\ UNCHANGED <<exc, result>>
    /\ UNCHANGED compVars
    /\ UNCHANGED <<redis_client, asked, ops, routing, mode, startCredits, project, st, node, full_response, nfrags, out, ran,
                   retries, gwCalls, gwFailed, usageSum>>

\* await send_email_task(subject="Project Build Failed"); then the stream
\* yields its ERROR marker and re-raises, the task asks celery for a retry.
ExcNotify ==
    /\ pc = "exc_notify"
    /\ \E o \in Outcomes :
         /\ events' = IF o = "raise" THEN events
                      ELSE Append(events, Ev("notify_failure", 0))
         /\ IF o = "ok"
            THEN /\ exc' = exc
                 /\ IF mode = "stream"
                    THEN /\ out' = Append(out, "[ERROR]" \o exc)
                         /\ pc' = "ended"
                         /\ result' = "failed"
                    ELSE /\ pc' = "retry"
                         /\ UNCHANGED <<out, result>>
            ELSE /\ exc' \in SinkErrors
                 /\ pc' = "ended"
                 /\ result' = "crashed"
                 /\ UNCHANGED out
    /\ UNCHANGED compVars
    /\ UNCHANGED <<redis_client, asked, ops, routing, mode, startCredits, credits, projStatus, project, st, node, full_response,
                   nfrags, ran, retries, gwCalls, gwFailed, usageSum>>

\* raise self.retry(exc=exc): celery runs the task again, from its first
\* line, until max_retries is used up; then the task has failed.
BatchRetry ==
    /\ mode \in WalkModes
    /\ pc = "retry"
    /\ IF retries < max_retries
       THEN /\ retries' = retries + 1
            /\ pc' = "start"
            /\ startCredits' = credits
            /\ project' = "unbound"
            /\ st' = NoState
            /\ node' = "none"
            /\ ran' = <<>>
            /\ nfrags' = 0
            /\ usageSum' = 0
            /\ asked' = FALSE
            /\ UNCHANGED result
       ELSE /\ pc' = "ended"
            /\ result' = "failed"
            /\ UNCHANGED <<startCredits, retries, project, st, node, ran,
                           nfrags, usageSum, asked>>
    /\ UNCHANGED compVars
    /\ UNCHANGED <<redis_client, ops, routing, mode, credits, projStatus, full_response, out, events, exc,
                   gwCalls, gwFailed>>


\* ------------------------------------------- stream: consumer closes
\* What is thrown into the generator when its consumer closes it: at a
\* yield GeneratorExit, at an await CancelledError.
CloseExceptions == {"GeneratorExit", "CancelledError"}

\* An `except BaseException` in place of `except Exception`.
except_BaseException(e) == TRUE

\* Whether `except Exception` catches e: the two exceptions of a close
\* derive from BaseException only.
except_Exception(e) == e \notin CloseExceptions

\* Positions at which the generator is suspended in an await or a yield,
\* and those among them inside the try block.
SuspensionPoints ==
    {"start", "node", "agent_start", "setup", "chunks", "agent_end", "final",
     "email", "except", "exc_notify"}

InTry == {"node", "agent_start", "setup", "chunks", "agent_end", "final", "email"}

\* The consumer closes the stream: the exception is thrown in at the point
\* of suspension; a handler that catches it runs, otherwise the generator
\* is left.
Close ==
    /\ mode = "stream"
    /\ pc \in SuspensionPoints
    /\ result = "running"
    /\ result' = "cancelled"
    /\ \E e \in CloseExceptions :
         IF pc \in InTry /\ except_Exception(e)
         THEN /\ pc' = "except"
              /\ exc' = e
         ELSE /\ pc' = "ended"
              /\ exc' = exc
    /\ UNCHANGED compVars
    /\ UNCHANGED <<redis_client, asked, ops, routing, mode, startCredits, credits,
                   projStatus, project, st, node, full_response, nfrags, out,
                   events, ran, retries, gwCalls, gwFailed, usageSum>>

\* ------------------------------------------------------ stream_project
\* One event of the SSE response.
SseEvent(chunk) == "data: " \o chunk \o "\n\n"

\* sse_generator: when stream_orchestration has returned (a run that is
\* done, or the return after the rejection) the loop over it is exhausted
\* and the closing event is sent; what stream_orchestration raises leaves
\* the generator before that line.
SseComplete ==
    /\ mode = "stream"
    /\ pc = "ended"
    /\ result \in {"done", "rejected"}
    /\ pc' = "sse_closed"
    /\ UNCHANGED compVars
    /\ UNCHANGED <<redis_client, asked, ops, routing, mode, startCredits, credits, projStatus,
                   project, st, node, full_response, nfrags, out, events, ran,
                   retries, exc, result, gwCalls, gwFailed, usageSum>>

\* The events the endpoint has sent: the opening event, one event for each
\* chunk of stream_orchestration, the closing event.
sse_generator ==
    <<SseEvent("[START] Orchestration started")>>
        \o [i \in DOMAIN out |-> SseEvent(out[i])]
        \o (IF pc = "sse_closed"
            THEN <<SseEvent("[COMPLETE] Orchestration finished")>>
            ELSE <<>>)

\* ------------------------------------------------------ stripe_webhook
idempotency_key(event_id) == "stripe:processed:" \o event_id

\* A coroutine is not left between two awaits: from construct_event to the
\* return stripe_webhook awaits nothing, so a process that is inside the
\* handler for one delivery starts no other.
InHandler(proc) ==
    \E q \in DOMAIN ops : ops[q].proc = proc /\ ops[q].at = "set"

\* Steps 1-3 up to the lookup: the signature is verified (400 otherwise),
\* then redis_client.get(idempotency_key) answers whether the key is there.
WebhookGet ==
    /\ mode = "webhook"
    /\ \E p \in DOMAIN ops :
         /\ ops[p].at = "get"
         /\ ~InHandler(ops[p].proc)
         /\ ops' = [ops EXCEPT
                ![p] = IF ~ops[p].signed
                       THEN [@ EXCEPT !.at = "done", !.response = "400"]
                       ELSE IF idempotency_key(ops[p].event_id) \in redis_client
                            THEN [@ EXCEPT !.at = "done",
                                           !.response = "duplicate"]
                            ELSE [@ EXCEPT !.at = "set"]]
    /\ UNCHANGED compVars
    /\ UNCHANGED <<redis_client, asked, routing, mode, pc, startCredits, credits,
                   projStatus, project, st, node, full_response, nfrags, out,
                   events, ran, retries, exc, result, gwCalls, gwFailed,
                   usageSum>>

\* redis_client.set(idempotency_key, "processed"), the debug payload,
\* background_tasks.add_task(queue_event) and the "received" response.
WebhookSet ==
    /\ mode = "webhook"
    /\ \E p \in DOMAIN ops :
         /\ ops[p].at = "set"
         /\ redis_client' = redis_client \cup {idempotency_key(ops[p].event_id)}
         /\ ops' = [ops EXCEPT ![p].at = "queue", ![p].response = "received"]
    /\ UNCHANGED compVars
    /\ UNCHANGED <<asked, routing, mode, pc, startCredits, credits,
                   projStatus, project, st, node, full_response, nfrags, out,
                   events, ran, retries, exc, result, gwCalls, gwFailed,
                   usageSum>>

\* queue_event, run after the response: the handler task of the event type
\* is enqueued, then the audit entry; what either .delay raises is caught
\* and logged.
queue_event ==
    /\ mode = "webhook"
    /\ \E p \in DOMAIN ops, taskOk \in BOOLEAN, auditOk \in BOOLEAN :
         /\ ops[p].at = "queue"
         /\ LET handled == EventType(ops[p].event_id) \in HandledTypes
                task    == IF handled /\ taskOk
                           THEN <<Ev("handler_task:" \o ops[p].event_id, p)>> ELSE <<>>
                audit   == IF (handled => taskOk) /\ auditOk
                           THEN <<Ev("audit", p)>> ELSE <<>>
            IN  events' = events \o task \o audit
         /\ ops' = [ops EXCEPT ![p].at = "done"]
    /\ UNCHANGED compVars
    /\ UNCHANGED <<redis_client, asked, routing, mode, pc, startCredits, credits,
                   projStatus, project, st, node, full_response, nfrags, out,
                   ran, retries, exc, result, gwCalls, gwFailed, usageSum>>

\* ------------------------------------------------- credit gate, shared
\* The UPDATE of a call and its commit.  The statement locks the user's row
\* until the commit, so no other call's UPDATE comes between the two; its
\* WHERE clause is evaluated on the committed balance.
GateUpdate ==
    /\ mode = "gate"
    /\ \E p \in DOMAIN ops :
         /\ ops[p].at = "update"
         /\ credits' =
                IF ops[p].kind = "deduct"
                THEN deduct_credits(credits, ops[p].amount, TRUE, TRUE).credits
                ELSE refund_credits(credits, ops[p].amount, TRUE).credits
         /\ ops' = [ops EXCEPT ![p].at = "sinks",
                               ![p].seen = credits,
                               ![p].took = IF ops[p].kind = "deduct"
                                           THEN credits - credits'
                                           ELSE credits' - credits]
    /\ UNCHANGED compVars
    /\ UNCHANGED <<redis_client, asked, routing, mode, pc, startCredits, projStatus, project,
                   st, node, full_response, nfrags, out, events, ran, retries,
                   exc, result, gwCalls, gwFailed, usageSum>>

\* The sink calls of a call, after its commit, and what it returns.
GateReturn ==
    /\ mode = "gate"
    /\ \E p \in DOMAIN ops, auditOk \in BOOLEAN, alertOk \in BOOLEAN :
         /\ ops[p].at = "sinks"
         /\ ops' = [ops EXCEPT
                ![p].at = "done",
                ![p].success =
                    IF ops[p].kind = "deduct"
                    THEN deduct_credits(ops[p].seen, ops[p].amount, auditOk,
                                        alertOk).success
                    ELSE refund_credits(ops[p].seen, ops[p].amount,
                                        auditOk).success]
    /\ UNCHANGED compVars
    /\ UNCHANGED <<redis_client, asked, routing, mode, pc, startCredits, credits, projStatus,
                   project, st, node, full_response, nfrags, out, events, ran,
                   retries, exc, result, gwCalls, gwFailed, usageSum>>

\* ------------------------------------------------- get_model_for_agent
\* A forced model is returned at once; otherwise the selection is followed
\* by audit_log.delay, outside any try: when the call raises, the exception
\* leaves the function and no model is returned.
SelectModel ==
    /\ mode = "model_router" /\ pc = "select"
    /\ pc' = "ended"
    /\ LET selected == get_model_for_agent(routing.agent_type, routing.user_tier,
                                           routing.task_complexity,
                                           routing.force_model)
           forced == routing.force_model # "none"
                     /\ routing.force_model \in ModelValues
       IN  \E auditOk \in BOOLEAN :
             IF forced \/ auditOk
             THEN /\ routing' = [routing EXCEPT !.selected = selected,
                                                !.outcome = "returned"]
                  /\ exc' = exc
             ELSE /\ routing' = [routing EXCEPT !.outcome = "raised"]
                  /\ exc' = SinkError
    /\ UNCHANGED compVars
    /\ UNCHANGED <<redis_client, asked, ops, mode, startCredits, credits, projStatus, project,
                   st, node, full_response, nfrags, out, events, ran, retries,
                   result, gwCalls, gwFailed, usageSum>>

\* ------------------------------------------------- routed model call
\* The factory routes (get_model_for_agent and its audit call), fixes
\* temperature and max_tokens and asks get_llm for the callable.  get_llm is
\* wrapped in lru_cache, which hashes its arguments: given a list of tools
\* it raises TypeError.  The payload get_llm sends holds no tools.
StageCall ==
    /\ mode = "stage_call" /\ pc = "call"
    /\ pc' = "ended"
    /\ LET tier    == TierPassed(routing.caller, routing.request_tier)
           given   == ToolsPassed(routing.caller, routing.agent_type)
           profile == GenerationProfile(Via(routing.caller), routing.agent_type)
           called  == [routing EXCEPT
                         !.user_tier = tier,
                         !.task_complexity = "medium",
                         !.tools_given = given.given,
                         !.tools = given.names]
       IN  \E auditOk \in BOOLEAN :
             IF ~auditOk
             THEN /\ routing' = [called EXCEPT !.outcome = "raised"]
                  /\ exc' = SinkError
             ELSE LET routed ==
                         [called EXCEPT
                            !.selected = get_model_for_agent(
                                routing.agent_type, tier, "medium", "none"),
                            !.temperature = profile.temperature,
                            !.max_tokens = profile.max_tokens]
                  IN  IF given.given /\ Via(routing.caller) # "router.get_routed_llm"
                      THEN /\ routing' = [routed EXCEPT !.outcome = "raised"]
                           /\ exc' = "TypeError"
                      ELSE /\ routing' = [routed EXCEPT !.outcome = "invoked"]
                           /\ exc' = exc
    /\ UNCHANGED compVars
    /\ UNCHANGED <<redis_client, asked, ops, mode, startCredits, credits, projStatus, project,
                   st, node, full_response, nfrags, out, events, ran, retries,
                   result, gwCalls, gwFailed, usageSum>>

\* ------------------------------------------------- should_continue
Route ==
    /\ mode = "router"
    /\ pc = "r_call"
    /\ decision' = should_continue(st)
    /\ pc' = "ended"
    /\ result' = "returned"
    /\ UNCHANGED <<redis_client, asked, ops, routing, mode, startCredits, credits, st, node, events, attempt, reply, update>>
    /\ UNCHANGED <<projStatus, project, full_response, nfrags, out, ran,
                   retries, exc, gwCalls, gwFailed, usageSum>>

\* ------------------------------------------------------ error_handler
\* refund_credits(amount=10); project = db.get(...); if project: FAILED.
\* The local `project` is the node function's own.
HandlerRefund ==
    /\ mode \in HandlerModes
    /\ pc = "node"
    /\ node = "error_handler"
    /\ \E auditOk \in BOOLEAN :
         credits' = refund_credits(credits, refund_amount, auditOk).credits
    /\ \E found \in BOOLEAN :
         IF found
         THEN /\ projStatus' = "FAILED"
              /\ events' = events \o Refunded(credits, credits')
                                  \o <<Ev("failed", 0)>>
         ELSE /\ projStatus' = projStatus
              /\ events' = events \o Refunded(credits, credits')
    /\ ran' = Append(ran, node)
    /\ pc' = "h_notify"
    /\ UNCHANGED compVars
    /\ UNCHANGED <<redis_client, asked, ops, routing, mode, startCredits, project, st, node, full_response,
                   nfrags, out, retries, exc, result, gwCalls, gwFailed,
                   usageSum>>

\* asyncio.create_task(send_deployment_success_email(...)), the e-mail the
\* handler sends, then the node's update: one assistant message.  What the
\* call raises leaves graph.ainvoke and reaches the driver's except branch.
\* Called on its own, the handler has then returned or raised.
HandlerNotify ==
    /\ mode \in HandlerModes
    /\ pc = "h_notify"
    /\ \E o \in Outcomes :
         /\ events' = IF o = "raise" THEN events
                      ELSE Append(events, Ev("handler_email", 0))
         /\ IF o = "ok"
            THEN /\ st' = [st EXCEPT !.messages =
                              <<AIMessage("Build failed due to errors")>>]
                 /\ pc' = IF mode = "handler" THEN "h_done" ELSE "route"
                 /\ exc' = exc
            ELSE /\ st' = st
                 /\ pc' = IF mode = "handler" THEN "h_done" ELSE "except"
                 /\ exc' \in SinkErrors
    /\ UNCHANGED compVars
    /\ UNCHANGED <<redis_client, asked, ops, routing, mode, startCredits, credits, projStatus, project, node,
                   full_response, nfrags, out, ran, retries, result, gwCalls,
                   gwFailed, usageSum>>

\* The handler is invoked again for the same failed run, with the state it
\* was given the first time.
HandlerAgain ==
    /\ mode = "handler"
    /\ pc = "h_done"
    /\ Len(ran) < HandlerRuns
    /\ pc' = "node"
    /\ exc' = ""
    /\ UNCHANGED compVars
    /\ UNCHANGED <<redis_client, asked, ops, routing, mode, startCredits, credits, projStatus,
                   project, st, node, full_response, nfrags, out, events, ran,
                   retries, result, gwCalls, gwFailed, usageSum>>

\* --------------------------------------------------------- agent_node
\* str.strip() on the texts a reply may carry.
Strip(c) == IF c = " plain text " THEN "plain text" ELSE c

IsJson(c) == c \in JsonTexts

\* The stages whose reply is parsed as JSON.
SchemaAgents == {"architect", "security", "qa"}

\* Key of the stage's output in the update.
OutputKey(agent_type) ==
    IF agent_type \in SchemaAgents
    THEN agent_type
    ELSE agent_type \o "_code"

\* What is stored for a reply's stripped text: what json.loads made of it
\* where the stage is a parsed one and the text is JSON, else the text.
StageOutput(agent_type, content) ==
    IF agent_type \in SchemaAgents /\ IsJson(content)
    THEN [kind |-> "parsed", value |-> content]
    ELSE [kind |-> "text", value |-> content]

\* The except branch of agent_node: the update it returns for exception e.
FailureUpdate(s, agent_type, e) ==
    [NoUpdate EXCEPT
       !.returned = TRUE,
       !.messages = <<AIMessage("Agent " \o agent_type \o " failed: " \o e)>>,
       !.errors = s.errors \o <<agent_type \o ": " \o e>>]

\* Token count of a reply: the gateway's report, else the estimate.
TokensUsed(r) ==
    IF r.reported THEN r.total_tokens ELSE estimate_tokens(r.content)

\* The update agent_node returns for reply r.
SuccessUpdate(s, agent_type, r) ==
    [NoUpdate EXCEPT
       !.returned = TRUE,
       !.messages = <<ToolCallMessage(r.content, r.tool_calls)>>,
       !.total_tokens_used = s.total_tokens_used + TokensUsed(r),
       !.key = IF r.tool_calls = <<>> THEN OutputKey(agent_type) ELSE "",
       !.output = IF r.tool_calls = <<>>
                  THEN StageOutput(agent_type, Strip(r.content))
                  ELSE NoOutput]

\* Lines 113-127, outside the function's try block: prompt, tool subset and
\* get_routed_llm, whose routing and audit calls may raise.  What they raise
\* leaves the function, and the retry policy runs it again until the
\* attempts are used up, then re-raises.
NodeRoute ==
    /\ mode = "node"
    /\ pc = "n_route"
    /\ \E ok \in BOOLEAN :
         IF ok
         THEN /\ pc' = "n_invoke"
              /\ UNCHANGED <<attempt, result, exc>>
         ELSE /\ exc' \in SinkErrors
              /\ IF attempt < stop_after_attempt
                 THEN /\ attempt' = attempt + 1
                      /\ UNCHANGED <<pc, result>>
                 ELSE /\ pc' = "ended"
                      /\ result' = "raised"
                      /\ UNCHANGED attempt
    /\ UNCHANGED <<redis_client, asked, ops, routing, mode, startCredits, credits, st, node, events, reply, update, decision>>
    /\ UNCHANGED <<projStatus, project, full_response, nfrags, out, ran,
                   retries, gwCalls, gwFailed, usageSum>>

\* response = await llm.ainvoke(...), inside the try block: an exception is
\* caught by the function's own handler, which returns the failure update.
NodeInvoke ==
    /\ mode = "node"
    /\ pc = "n_invoke"
    /\ \E ok \in BOOLEAN :
         IF ok
         THEN /\ reply' \in NodeReplies
              /\ usageSum' = usageSum + TokensUsed(reply')
              /\ pc' = "n_sinks"
              /\ UNCHANGED <<update, result, exc, gwFailed>>
         ELSE /\ exc' \in GatewayErrors
              /\ update' = FailureUpdate(st, node, exc')
              /\ gwFailed' = TRUE
              /\ pc' = "ended"
              /\ result' = "returned"
              /\ UNCHANGED <<reply, usageSum>>
    /\ ran' = Append(ran, node)
    /\ UNCHANGED <<redis_client, asked, ops, routing, mode, startCredits, credits, st, node, events, attempt, decision>>
    /\ UNCHANGED <<projStatus, project, full_response, nfrags, out, retries,
                   gwCalls>>

\* report_grok_usage.delay and audit_log.delay, still inside the try block,
\* then the update.
NodeSinks ==
    /\ mode = "node"
    /\ pc = "n_sinks"
    /\ \E meterOk \in BOOLEAN, auditOk \in BOOLEAN :
         /\ events' = IF meterOk
                      THEN Append(events, Ev("usage_report", TokensUsed(reply)))
                      ELSE events
         /\ IF meterOk /\ auditOk
            THEN /\ update' = SuccessUpdate(st, node, reply)
                 /\ exc' = exc
            ELSE /\ exc' \in SinkErrors
                 /\ update' = FailureUpdate(st, node, exc')
    /\ pc' = "ended"
    /\ result' = "returned"
    /\ UNCHANGED <<redis_client, asked, ops, routing, mode, startCredits, credits, st, node, attempt, reply, decision>>
    /\ UNCHANGED <<projStatus, project, full_response, nfrags, out, ran,
                   retries, gwCalls, gwFailed, usageSum>>

\* ------------------------------------------------------ specification
Next ==
    \/ CreateDeduct
    \/ CreateProject
    \/ CreateAudit
    \/ CreateEnqueue
    \/ CreateEmail
    \/ Reserve
    \/ BuildGraph
    \/ RagInject
    \/ StreamAgentStart
    \/ LlmSetup
    \/ LlmChunk
    \/ LlmDone
    \/ LlmFail
    \/ StreamAgentEnd
    \/ BatchAgentEnd
    \/ GraphRoute
    \/ ToolNode
    \/ FinalProject
    \/ FinalEmail
    \/ FinalUsage
    \/ FinalAudit
    \/ Except
    \/ ExcNotify
    \/ BatchRetry
    \/ Close
    \/ SseComplete
    \/ WebhookGet
    \/ WebhookSet
    \/ queue_event
    \/ GateUpdate
    \/ GateReturn
    \/ SelectModel
    \/ StageCall
    \/ Route
    \/ HandlerRefund
    \/ HandlerNotify
    \/ HandlerAgain
    \/ NodeRoute
    \/ NodeInvoke
    \/ NodeSinks

Spec == Init /\ [][Next]_vars

\* ============================================================ properties
DriverModes == {"stream", "batch"}

\* Number of the first k entries of events whose name is in names.
Count(names, k) == Cardinality({i \in 1..k : events[i].e \in names})

Happened(names) == Count(names, Len(events)) > 0

\* Effects of the terminal outcome done, and of the terminal outcome failed.
DoneEffects ==
    \/ Happened({"completed", "notify_success", "usage_report"})
    \/ \E i \in DOMAIN out : out[i] = "[COMPLETE]"

FailEffects == Happened({"refund", "failed", "notify_failure"})

\* C1: no run of a driver reaches both terminal outcomes: a run whose
\* credits were refunded, whose project was marked failed or whose failure
\* was notified is never also marked completed, notified as a success,
\* metered, or closed with the COMPLETE marker.
C1_ExclusiveOutcomes ==
    mode \in DriverModes => ~(DoneEffects /\ FailEffects)

\* C2: a run whose reservation succeeded and whose state was created ends
\* in one of the two terminal outcomes, done or failed.
C2_AdmittedRunEndsDoneOrFailed ==
    (mode \in DriverModes /\ pc = "ended" /\ st.created)
        => result \in {"done", "failed"}

ReportedTokens ==
    LET k == CHOOSE i \in DOMAIN events :
                 /\ events[i].e = "usage_report"
                 /\ \A j \in (i + 1)..Len(events) : events[j].e # "usage_report"
    IN  events[k].n

\* C4: when a run is done, total_tokens_used is the sum of the usage of its
\* successful stage calls, and that sum is what was reported to metering.
C4_TokensAreTheSum ==
    (mode \in DriverModes /\ result = "done")
        => /\ st.total_tokens_used = usageSum
           /\ ReportedTokens = usageSum

PendingToolCalls(s) ==
    Last(s.messages).type = "ai" /\ Last(s.messages).tool_calls # <<>>

\* C5: should_continue answers error_handler whenever errors is non-empty,
\* pending tool calls or not; otherwise tools exactly when the last message
\* is an assistant message with tool calls; otherwise next.
C5_RouterPriority ==
    (mode = "router" /\ pc = "ended")
        => /\ st.errors # <<>> => decision = "error_handler"
           /\ (st.errors = <<>> /\ PendingToolCalls(st)) => decision = "tools"
           /\ (st.errors = <<>> /\ ~PendingToolCalls(st)) => decision = "next"

C5_Witness ==
    /\ mode = "router"
    /\ pc = "ended"
    /\ st.errors # <<>>
    /\ PendingToolCalls(st)
    /\ decision = "error_handler"

\* The history after the tool node: the requesting assistant message, then
\* one tool result per call, in the order of the calls.
ResultsFollowRequest ==
    \E k \in DOMAIN st.messages :
        LET calls == st.messages[k].tool_calls IN
        /\ st.messages[k].type = "ai"
        /\ calls # <<>>
        /\ Len(st.messages) = k + Len(calls)
        /\ \A j \in 1..Len(calls) : st.messages[k + j] = ToolMessage(calls[j])

\* C6: a reply that requests tool calls sends control to the tool node and
\* from there back to the same stage, and the history then holds one tool
\* result per call, after the requesting message and in call order.
C6_ToolLoop ==
    /\ (mode = "stream" /\ pc \in {"agent_start", "final"} /\ gwCalls # <<>>)
          => node = "tools"
    /\ (mode \in WalkModes /\ pc = "route" /\ node \in AgentSet
          /\ (gwCalls # <<>> \/ (st.errors = <<>> /\ PendingToolCalls(st))))
          => GraphSucc(node, st) = {"tools"}
    /\ \A i \in 2..(Len(ran) - 1) : ran[i] = "tools" => ran[i + 1] = ran[i - 1]
    /\ (mode \in WalkModes /\ pc = "route" /\ node = "tools")
          => ResultsFollowRequest

\* C7: a refused reservation leaves nothing behind: no state, no node run,
\* the balance as it was when the run was requested.
C7_RejectionChangesNothing ==
    (mode \in DriverModes /\ result = "rejected")
        => /\ credits = startCredits
           /\ st = NoState
           /\ ran = <<>>

\* Texts made of at most n fragments.
RECURSIVE FragTexts(_)
FragTexts(n) ==
    IF n = 0 THEN {""}
    ELSE FragTexts(n - 1) \cup {t \o f : t \in FragTexts(n - 1), f \in Fragments}

\* The chunk stream_routed_llm yields for a gateway failure.
FailChunks == {"[ERROR] Streaming failed: " \o e : e \in GatewayErrors}

StartMarkers == {"[AGENT_START]" \o Upper(a) \o "[/AGENT_START]" : a \in AgentSet}

\* C8: after a gateway failure in the stream no later stage starts, the
\* text of the failed stage is not recorded as a reply, no COMPLETE marker
\* is emitted and the project is not marked completed.
C8_StreamFailureEndsRun ==
    mode = "stream" =>
      \A i \in DOMAIN out :
        out[i] \in FailChunks =>
          /\ \A j \in (i + 1)..Len(out) :
                out[j] \notin StartMarkers \cup {"[COMPLETE]"}
          /\ projStatus # "COMPLETED"
          /\ \A k \in DOMAIN st.messages :
                st.messages[k].content \notin
                    {t \o f : t \in FragTexts(MaxFrags), f \in FailChunks}

Notifications == {"notify_failure", "handler_email"}

C10_RetriesBeforeRecording ==
    (mode = "node" /\ pc = "ended")
        => /\ result # "raised"
           /\ gwFailed => attempt > 1
           /\ update.errors # st.errors
                 => (gwFailed /\ attempt = stop_after_attempt)

\* Texts an exception handled by a driver may carry.
ExcTexts == SinkErrors \cup GraphErrors \cup {"AttributeError", "UnboundLocalError"}

\* What a consumer reads as a terminal marker: COMPLETE, or a fragment that
\* begins with the ERROR tag.
TerminalMarkers ==
    {"[COMPLETE]"} \cup {"[ERROR]" \o e : e \in ExcTexts} \cup FailChunks

\* What an element of the stream is.
Kind(x) ==
    CASE x \in StartMarkers    -> "start"
      [] x \in Fragments       -> "fragment"
      [] x = "[AGENT_END]"     -> "end"
      [] x \in TerminalMarkers -> "terminal"
      [] OTHER                 -> "other"

\* Number of stage-start markers among the first i elements of the stream.
Starts(i) == Cardinality({j \in 1..i : Kind(out[j]) = "start"})

\* C11: the stream of an admitted run (its state created, its loop
\* entered) is, for each stage in order, one
\* start marker naming the stage, the stage's text fragments, one end
\* marker; it ends with exactly one terminal marker, COMPLETE or ERROR, and
\* nothing follows that marker.
C11_StreamGrammar ==
    (mode = "stream" /\ st.created)
        => /\ \A i \in DOMAIN out :
                 LET k    == Kind(out[i])
                     prev == IF i = 1 THEN "none" ELSE Kind(out[i - 1])
                 IN  /\ k # "other"
                     /\ k = "start" =>
                           /\ prev \in {"none", "end"}
                           /\ Starts(i) <= Len(Agents)
                           /\ out[i] = "[AGENT_START]" \o Upper(Agents[Starts(i)])
                                           \o "[/AGENT_START]"
                     /\ k \in {"fragment", "end"} => prev \in {"start", "fragment"}
                     /\ k = "terminal" => i = Len(out)
                     /\ out[i] = "[COMPLETE]" => Starts(i) = Len(Agents)
           /\ pc = "ended" => (out # <<>> /\ Kind(Last(out)) = "terminal")

\* C12: once the consumer has closed the stream the run is abandoned: no
\* refund, no failure path, no notification, no further stage, no marker.
\* Every step that leaves the run closed, the close itself included, ends
\* the run and changes neither the balance, the project, the calls made,
\* the stages run nor the stream.
C12_CloseAbandons ==
    [][result' = "cancelled"
         => /\ pc' = "ended"
            /\ credits' = credits
            /\ projStatus' = projStatus
            /\ events' = events
            /\ ran' = ran
            /\ out' = out]_vars

C12_Witness ==
    /\ mode = "stream"
    /\ result = "cancelled"
    /\ pc = "ended"
    /\ out # <<>>
    /\ Last(out) \in Fragments
    /\ credits = startCredits - estimated_cost
    /\ projStatus = "PENDING"

\* Texts a driver records for a stage whose gateway call failed.
FailedTexts == {t \o f : t \in FragTexts(MaxFrags), f \in FailChunks}

\* Every model call of the run succeeded.
AllCallsSucceeded ==
    \A k \in DOMAIN st.messages : st.messages[k].content \notin FailedTexts

\* C13: a run in which every model call succeeds and no reply asks for a
\* tool call ends done with errors empty, the project completed, and a
\* stage output stored in the state for each of the six stages, under the
\* keys architecture, frontend_code, backend_code, security, tests or qa,
\* and devops.
C13_OutputsOfACleanRun ==
    (mode \in DriverModes /\ result = "done" /\ AllCallsSucceeded /\ ~asked)
        => /\ st.errors = <<>>
           /\ projStatus = "COMPLETED"
           /\ {"architecture", "frontend_code", "backend_code", "security",
               "devops"} \subseteq st.keys
           /\ {"tests", "qa"} \cap st.keys # {}

\* C14: when the reply of a parsed stage carries no tool call and its text
\* is not JSON, agent_node stores the text of the reply, unparsed, as the
\* stage's output and adds nothing to errors, so that the run goes on.
C14_ParseFallback ==
    (/\ mode = "node"
     /\ pc = "ended"
     /\ reply # NoReply
     /\ reply.tool_calls = <<>>
     /\ node \in SchemaAgents
     /\ ~IsJson(Strip(reply.content)))
        => /\ update.returned
           /\ update.key = OutputKey(node)
           /\ update.output = [kind |-> "text", value |-> Strip(reply.content)]
           /\ update.errors = <<>>

\* C15: a reserve either takes the whole amount and returns success, or
\* returns failure and leaves the balance as it was; whatever the order in
\* which reserves and refunds of one user run, the balance is never
\* negative and a reserve succeeds only on a balance that covers the amount.
C15_ReserveAllOrNothing ==
    mode = "gate" =>
      /\ credits >= 0
      /\ \A p \in DOMAIN ops :
            (ops[p].kind = "deduct" /\ ops[p].at = "done") =>
                \/ /\ ops[p].success
                   /\ ops[p].took = ops[p].amount
                   /\ ops[p].seen >= ops[p].amount
                \/ /\ ~ops[p].success
                   /\ ops[p].took = 0

\* A call of get_model_for_agent that returned a model.
Returned == mode = "model_router" /\ routing.outcome = "returned"

\* C16: for every agent type, a caller of one of the two upper tiers with a
\* task of medium or high complexity and no forced model is given the
\* deepest-reasoning model.
C16_UpperTiersGetDeepest ==
    (/\ Returned
     /\ routing.user_tier \in {"premier", "ultra"}
     /\ routing.task_complexity \in {"medium", "high"}
     /\ routing.force_model = "none")
        => routing.selected = MODELS.default_reasoning

C16_Witness ==
    /\ Returned
    /\ routing.agent_type = "qa"
    /\ routing.user_tier = "premier"
    /\ routing.task_complexity = "medium"
    /\ routing.force_model = "none"
    /\ routing.selected = MODELS.default_reasoning

\* C17: a starter caller with no forced model is never given the
\* deepest-reasoning model, whatever the agent type and the complexity; where
\* the agent's default or a high complexity would select it, the caller is
\* given the fastest non-reasoning model.
C17_StarterNeverDeepest ==
    (/\ Returned
     /\ routing.user_tier = "starter"
     /\ routing.force_model = "none")
        => /\ routing.selected # MODELS.default_reasoning
           /\ (\/ routing.agent_type \in {"architect", "product"}
               \/ routing.task_complexity = "high")
                 => routing.selected = MODELS.fast_non_reasoning

C17_Witness ==
    /\ Returned
    /\ routing.agent_type = "frontend"
    /\ routing.user_tier = "starter"
    /\ routing.task_complexity = "high"
    /\ routing.force_model = "none"
    /\ routing.selected = MODELS.fast_non_reasoning

\* The static mapping of rule 2.
StaticTier(agent_type) ==
    IF agent_type \in {"architect", "product"} THEN "default_reasoning"
    ELSE IF agent_type \in {"frontend", "backend", "security"}
         THEN "fast_reasoning"
         ELSE "fast_non_reasoning"

\* What rules 2 to 5 come to, stated by cases on the caller.
ByRules(agent_type, user_tier, task_complexity) ==
    LET deepest ==
            \/ StaticTier(agent_type) = "default_reasoning"
            \/ task_complexity = "high"
            \/ (user_tier \in {"premier", "ultra"}
                /\ task_complexity = "medium")
    IN  IF ~deepest THEN MODELS[StaticTier(agent_type)]
        ELSE IF user_tier = "starter" THEN MODELS.fast_non_reasoning
             ELSE MODELS.default_reasoning

\* C18: a forced model that the registry holds is returned as it is, for
\* every agent type, tier and complexity; with no forced model, or one the
\* registry does not hold, the result is that of rules 2 to 5.
C18_ForcedModelVerbatim ==
    Returned =>
        IF routing.force_model \in ModelValues
        THEN routing.selected = routing.force_model
        ELSE routing.selected = ByRules(routing.agent_type, routing.user_tier,
                                        routing.task_complexity)

C18_Witness ==
    /\ Returned
    /\ routing.user_tier = "starter"
    /\ routing.force_model = MODELS.default_reasoning
    /\ routing.selected = MODELS.default_reasoning

\* The retrieval step of a driver, taken with a lookup that raised.
FailedRetrieval ==
    /\ mode \in DriverModes
    /\ pc = "node"
    /\ node = "rag_inject"
    /\ events' = Append(events, Ev("lookup_raised", 0))

C20_SinksNeverChangeFlow ==
    /\ (mode = "model_router" /\ pc = "ended") =>
          /\ routing.outcome = "returned"
          /\ routing.selected =
                get_model_for_agent(routing.agent_type, routing.user_tier,
                                    routing.task_complexity,
                                    routing.force_model)
    /\ (mode = "node" /\ pc = "ended" /\ reply # NoReply) =>
          /\ result = "returned"
          /\ update = SuccessUpdate(st, node, reply)
    /\ (mode \in DriverModes /\ pc = "ended" /\ project = "row"
          /\ result # "cancelled") =>
          /\ result = "done"
          /\ projStatus = "COMPLETED"

\* Calls of send_deployment_success_email: at the creation of the project,
\* in the success bookkeeping of a driver, and in the error handler.
SuccessNotifications == {"created_email", "notify_success", "handler_email"}

\* C21: the notification issued for a run matches its outcome.  A run that
\* ended failed has issued a failure notification and no success
\* notification; a run for which a success notification was issued ends
\* done.
C21_NotificationMatchesOutcome ==
    (mode \in DriverModes \cup {"graph"} /\ pc = "ended") =>
        /\ (result = "failed" \/ projStatus = "FAILED") =>
              /\ Happened({"notify_failure"})
              /\ ~Happened(SuccessNotifications)
        /\ Happened(SuccessNotifications) => result = "done"

\* Sum of the amounts of the first k entries of events named in names.
RECURSIVE SumEv(_, _)
SumEv(names, k) ==
    IF k = 0 THEN 0
    ELSE SumEv(names, k - 1)
            + (IF events[k].e \in names THEN events[k].n ELSE 0)

Deducted == SumEv({"deduct"}, Len(events))

RefundedTotal == SumEv({"refund"}, Len(events))

\* C28: for a project created by create_project and run by the task, retries
\* included, the credits deducted amount to one reservation, the credits
\* refunded never exceed the credits deducted, and a run that ends failed
\* has refunded what was deducted.
C28_OneReservationPerProject ==
    Happened({"project_created"}) =>
        /\ Deducted = creation_cost
        /\ RefundedTotal <= Deducted
        /\ (pc = "ended" /\ result = "failed") => RefundedTotal = Deducted

IsPrefix(s, t) == Len(s) <= Len(t) /\ \A i \in DOMAIN s : s[i] = t[i]

\* C22: in both drivers the stages run in the order retrieval, architect,
\* frontend, backend, security, qa, devops: the stages started are always
\* the first ones of that order, a run is done only when devops has run, and
\* once the error handler has run no stage runs after it.
C22_FixedStageOrder ==
    /\ mode \in DriverModes =>
          /\ IsPrefix(ran, StreamNodes)
          /\ result = "done" => ran = StreamNodes
    /\ (mode \in WalkModes /\ \E i \in DOMAIN ran : ran[i] = "error_handler") =>
          Last(ran) = "error_handler"

\* C23: invoking the error handler again for the same failed run leaves the
\* balance and the project status as the first invocation left them: the
\* reservation is refunded at most once, the balance never exceeds its value
\* before the reservation, and a project marked failed stays failed.
C23_HandlerIdempotent ==
    mode = "handler" =>
        /\ RefundedTotal <= refund_amount
        /\ credits <= startCredits
        /\ Happened({"failed"}) => projStatus = "FAILED"

\* A stage's model call has been routed.
StageRouted ==
    /\ mode = "stage_call"
    /\ routing.caller \in CallSites
    /\ routing.selected # ""

\* C24: the model that serves a stage, in batch mode and in streaming mode,
\* is the router's result for the stage, the user_tier of the request and
\* the run's complexity.
C24_StageRoutedByRequestTier ==
    StageRouted =>
        routing.selected =
            get_model_for_agent(routing.agent_type, routing.request_tier,
                                routing.task_complexity, "none")

\* C25: the tool set a stage's model call is given is the stage's own subset
\* AGENT_TOOLS[stage], and never the whole catalog.
C25_StageToolSubset ==
    StageRouted =>
        /\ routing.tools = AGENT_TOOLS[routing.agent_type]
        /\ routing.tools # tools

\* The profile of an agent's family: low temperature and the largest budget
\* for architect, security and product; mid temperature and the medium
\* budget for frontend and backend; the default temperature otherwise.
FamilyProfile(agent_type, temperature, max_tokens) ==
    IF agent_type \in {"architect", "security", "product"}
    THEN temperature = "0.2" /\ max_tokens = 12288
    ELSE IF agent_type \in {"frontend", "backend"}
         THEN temperature = "0.5" /\ max_tokens = 8192
         ELSE temperature = "0.7" /\ max_tokens <= 8192

\* C26: every routed model invocation made without an override, by
\* get_routed_llm or by stream_routed_llm, uses the generation profile of
\* the agent's family.
C26_FamilyProfile ==
    (/\ mode = "stage_call"
     /\ routing.outcome = "invoked"
     /\ Via(routing.caller) \in {"get_routed_llm", "stream_routed_llm"})
        => FamilyProfile(routing.agent_type, routing.temperature,
                         routing.max_tokens)

\* The text fragments among the last elements of the stream, back to the
\* latest stage-start marker, concatenated in the order of the stream.
RECURSIVE StageFragments(_)
StageFragments(i) ==
    IF i = 0 \/ Kind(out[i]) = "start" THEN ""
    ELSE StageFragments(i - 1)
            \o (IF Kind(out[i]) = "fragment" THEN out[i] ELSE "")

\* C27: in the stream the reply recorded for a stage is the concatenation,
\* in arrival order, of the model's text fragments for that stage, and what
\* is forwarded between a stage's markers is such a fragment: neither the
\* gateway's end-of-stream sentinel nor the text of a gateway error.
C27_ReplyIsTheFragments ==
    mode = "stream" =>
        /\ \A i \in DOMAIN out : out[i] \notin {"[DONE]"} \cup FailChunks
        /\ pc = "agent_end" => full_response = StageFragments(Len(out))
        /\ \A k \in DOMAIN st.messages :
              st.messages[k].type = "ai"
                  => st.messages[k].content \in FragTexts(MaxFrags)

\* The chunks of stream_orchestration that are ERROR markers.
ErrorChunks ==
    {"[ERROR] Insufficient credits: " \o m :
        m \in {"Insufficient credits or user not found", SinkError}}
        \cup {"[ERROR]" \o e : e \in ExcTexts \cup CloseExceptions} \cup FailChunks

SseHas(chunks) ==
    \E i \in DOMAIN sse_generator : sse_generator[i] \in {SseEvent(c) : c \in chunks}

\* C29: the events of the stream_project endpoint never hold both an ERROR
\* marker and a COMPLETE marker: the closing "[COMPLETE] Orchestration
\* finished" event is sent only when stream_orchestration itself ended with
\* its COMPLETE marker, not after a rejection for insufficient credits and
\* not after a failed run.
C29_SseErrorOrComplete ==
    mode = "stream" =>
        /\ ~(/\ SseHas(ErrorChunks)
             /\ SseHas({"[COMPLETE]", "[COMPLETE] Orchestration finished"}))
        /\ SseHas({"[COMPLETE] Orchestration finished"}) => SseHas({"[COMPLETE]"})


\* The deliveries of an event that passed the signature check, and the
\* deliveries that enqueued its handler task.
Accepted(id) == {p \in DOMAIN ops : ops[p].event_id = id /\ ops[p].signed}

Enqueued(id) ==
    {events[i].n : i \in {j \in DOMAIN events : events[j].e = "handler_task:" \o id}}

\* C30: the webhook processes each event id at most once: of any number of
\* deliveries of one event, concurrent ones included, exactly one enqueues
\* the handler task and every other one returns duplicate without
\* enqueuing.
C30_EachEventOnce ==
    mode = "webhook" =>
        \A id \in {e \in EventIds : EventType(e) \in HandledTypes} :
            /\ Cardinality(Enqueued(id)) <= 1
            /\ (Accepted(id) # {} /\ \A p \in DOMAIN ops : ops[p].at = "done")
                   => \E p \in Accepted(id) :
                          /\ Enqueued(id) = {p}
                          /\ \A q \in Accepted(id) \ {p} :
                                 ops[q].response = "duplicate"

====
